---- MODULE Spec2Model ----
(***************************************************************************)
(* Model of datastore/entry.go: the binary record codec (Entry.Encode,     *)
(* Entry.Decode and the two type operators) and the streaming value reader *)
(* readValue over a bufio.Reader.                                          *)
(*                                                                         *)
(* Byte strings are sequences of numbers 0..255.  Go offsets are 0-based;  *)
(* the byte at Go offset k of a buffer b is b[k + 1].  64-bit integers are *)
(* kept as 8 little-endian bytes, so that every step of the arithmetic     *)
(* stays exact at the width the program uses.                              *)
(***************************************************************************)
EXTENDS Integers, Sequences, FiniteSets, TLC

VARIABLES pc, e, enc, input, dec, recs, stream, rd, calls, last

vars == <<pc, e, enc, input, dec, recs, stream, rd, calls, last>>

(* ---------------------------------------------------------------- bounds *)

(* the longest key and value drawn from the byte alphabets, the most       *)
(* records in a stream, and the size of the bufio.Reader's buffer (4096 by *)
(* default; here a few records long, so that records straddle its end)     *)
MaxKeyLen == 2
MaxValLen == 2
MaxRecords == 3
BufSize == 48

(* ------------------------------------------------------------- constants *)

TYPE_SIZE == 1
STRING_TYPE == 0
INT64_TYPE == 1

(* --------------------------------------------------------------- helpers *)

Min(a, b) == IF a < b THEN a ELSE b

SeqsUpTo(S, n) == UNION {[1..k -> S] : k \in 0..n}

Zeros(n) == [i \in 1..n |-> 0]

Repeat(c, n) == [i \in 1..n |-> c]

(* ASCII text of a sequence of decimal digits. *)
Digits(ds) == [i \in 1..Len(ds) |-> 48 + ds[i]]

(* ------------------------------------------------- encoding/binary, copy *)

(* A buffer under construction: its bytes b, and the set w of 0-based      *)
(* offsets some statement has stored into since make() zeroed it.          *)
make(size) == [b |-> Zeros(size), w |-> {}]

Byte(x, k) ==
  IF k = 0 THEN x % 256
  ELSE IF k = 1 THEN (x \div 256) % 256
  ELSE IF k = 2 THEN (x \div 65536) % 256
  ELSE (x \div 16777216) % 256

(* binary.LittleEndian.PutUint32(buf[off:], uint32(x)) *)
PutUint32(buf, off, x) ==
  [b |-> [i \in 1..Len(buf.b) |->
            IF i - 1 \in off..(off + 3) THEN Byte(x, i - 1 - off) ELSE buf.b[i]],
   w |-> buf.w \cup (off..(off + 3))]

(* binary.LittleEndian.PutUint64(buf[off:], v), v given as its 8 bytes *)
PutUint64(buf, off, v) ==
  [b |-> [i \in 1..Len(buf.b) |->
            IF i - 1 \in off..(off + 7) THEN v[i - off] ELSE buf.b[i]],
   w |-> buf.w \cup (off..(off + 7))]

(* copy(buf[off:], src): copies min(len(src), len(buf) - off) bytes *)
copy(buf, off, src) ==
  LET n == Min(Len(src), Len(buf.b) - off)
  IN  [b |-> [i \in 1..Len(buf.b) |->
                IF i - 1 \in off..(off + n - 1) THEN src[i - off] ELSE buf.b[i]],
       w |-> buf.w \cup (off..(off + n - 1))]

(* buf[off] = x *)
SetByte(buf, off, x) ==
  [b |-> [buf.b EXCEPT ![off + 1] = x], w |-> buf.w \cup {off}]

(* Every length of the model is far below 2^30; a 4-byte field at or above *)
(* it (met only when a reader is misaligned) is kept as 2^30, which is     *)
(* beyond the end of every stream just as the exact value is.              *)
Uint32Sat == 64 * 16777216

(* binary.LittleEndian.Uint32(bs[off:]) on a slice holding the 4 bytes *)
Uint32(bs, off) ==
  IF bs[off + 4] >= 64 THEN Uint32Sat
  ELSE bs[off + 1] + 256 * bs[off + 2] + 65536 * bs[off + 3] + 16777216 * bs[off + 4]

(* binary.LittleEndian.Uint64(bs[off:]): the 8 bytes, least significant first *)
Uint64(bs, off) == SubSeq(bs, off + 1, off + 8)

(* --------------------------------------------- 64-bit integer arithmetic *)

U64Zero == Zeros(8)

RECURSIVE MulAddFrom(_, _, _, _)
(* bytes i..8 of v * m + c, followed by the carry out of byte 8 *)
MulAddFrom(v, m, c, i) ==
  IF i > 8 THEN <<c>>
  ELSE LET t == v[i] * m + c
       IN  <<t % 256>> \o MulAddFrom(v, m, t \div 256, i + 1)

(* v * m + c as 9 bytes: the uint64 result and the overflow byte *)
MulAdd(v, m, c) == MulAddFrom(v, m, c, 1)

(* two's complement negation modulo 2^64: invert, add one *)
Negate(v) ==
  LET inv == [i \in 1..8 |-> 255 - v[i]]
  IN  SubSeq(MulAdd(inv, 1, 1), 1, 8)

RECURSIVE DivFrom(_, _, _)
(* long division by 10 from byte i downwards with running remainder r:     *)
(* the quotient bytes i..1 (most significant first) then the remainder     *)
DivFrom(v, r, i) ==
  IF i < 1 THEN <<r>>
  ELSE LET cur == r * 256 + v[i]
       IN  <<cur \div 10>> \o DivFrom(v, cur % 10, i - 1)

(* v \div 10 (8 bytes, little-endian) and v % 10 *)
DivMod10(v) ==
  LET d == DivFrom(v, 0, 8)
  IN  [q |-> [i \in 1..8 |-> d[9 - i]], r |-> d[9]]

(* ------------------------------------------------------------- strconv *)

IsDigit(c) == c \in 48..57

RECURSIVE ParseUintFrom(_, _, _)
(* strconv.ParseUint(s, 10, 64), the loop from character i with value n *)
ParseUintFrom(s, i, n) ==
  IF i > Len(s) THEN [err |-> "nil", un |-> n]
  ELSE IF ~IsDigit(s[i]) THEN [err |-> "syntax", un |-> U64Zero]
  ELSE LET n1 == MulAdd(n, 10, s[i] - 48)
       IN  IF n1[9] # 0 THEN [err |-> "range", un |-> Repeat(255, 8)]
           ELSE ParseUintFrom(s, i + 1, SubSeq(n1, 1, 8))

ParseUint(s) ==
  IF Len(s) = 0 THEN [err |-> "syntax", un |-> U64Zero]
  ELSE ParseUintFrom(s, 1, U64Zero)

(* un >= 1 << 63  and  un > 1 << 63 *)
GeqCutoff(un) == un[8] >= 128
GtCutoff(un) == un[8] > 128 \/ (un[8] = 128 /\ \E i \in 1..7 : un[i] # 0)

(* strconv.ParseInt(s, 10, 64): err, and uint64(i) for the int64 i returned *)
ParseInt(s) ==
  IF Len(s) = 0 THEN [err |-> "syntax", i |-> U64Zero]
  ELSE LET neg  == s[1] = 45
           body == IF s[1] \in {43, 45} THEN Tail(s) ELSE s
           u    == ParseUint(body)
       IN  IF u.err = "syntax" THEN [err |-> "syntax", i |-> U64Zero]
           ELSE IF ~neg /\ GeqCutoff(u.un)
                  THEN [err |-> "range", i |-> Repeat(255, 7) \o <<127>>]
           ELSE IF neg /\ GtCutoff(u.un)
                  THEN [err |-> "range", i |-> Zeros(7) \o <<128>>]
           ELSE [err |-> "nil", i |-> IF neg THEN Negate(u.un) ELSE u.un]

(* ----------------------------------------------------------------- fmt *)

RECURSIVE FormatUint(_)
(* decimal digits of a non-zero uint64, most significant first *)
FormatUint(v) ==
  IF v = U64Zero THEN <<>>
  ELSE LET d == DivMod10(v) IN FormatUint(d.q) \o <<48 + d.r>>

(* Sprintf_d with the value formatted as unsigned ("%d" of the uint64) *)
Sprintf_d_Unsigned(v) ==
  IF v = U64Zero THEN <<48>> ELSE FormatUint(v)

(* fmt.Sprintf("%d", int64(v)) for v the 8 bytes of a uint64 *)
Sprintf_d(v) ==
  IF v = U64Zero THEN <<48>>
  ELSE IF v[8] >= 128 THEN <<45>> \o FormatUint(Negate(v))
  ELSE FormatUint(v)

(* ------------------------------------------------------------ registry *)

(* var operators: the tags that have an operator; any other tag maps to a  *)
(* nil typeOperator, and a method call on it is a run-time panic           *)
operators == {STRING_TYPE, INT64_TYPE}

(* ToType: the name registered for a tag, "" when there is none *)
ToType(value) ==
  IF value = STRING_TYPE THEN "string"
  ELSE IF value = INT64_TYPE THEN "int64"
  ELSE ""

(* ToByte: the tag of a name; the zero byte for an unknown name *)
ToByte(valueType) ==
  IF valueType = "int64" THEN INT64_TYPE ELSE STRING_TYPE

(* ---------------------------------------------------------------- Entry *)

Entry(k, t, v) == [key |-> k, valueType |-> t, value |-> v]

(* the zero Entry a caller hands to Decode *)
ZeroEntry == Entry(<<>>, 0, <<>>)

Panicked == [status |-> "panic", b |-> <<>>, w |-> {}]

Returned(buf) == [status |-> "ok", b |-> buf.b, w |-> buf.w]

(* -------------------------------------------------------------- encode *)

(* encodeKey with the type tag's byte left out of the size *)
encodeKey_NoTypeSize(en, vl) ==
  LET kl   == Len(en.key)
      size == kl + vl + 12
      r0   == make(size)
      r1   == PutUint32(r0, 0, size)
      r2   == PutUint32(r1, 4, kl)
      r3   == copy(r2, 8, en.key)
  IN  [res |-> r3, offset |-> kl + 8]

(* encodeKey: the allocated buffer with both header fields and the key     *)
(* stored, and the offset of the type tag                                  *)
encodeKey(en, vl) ==
  LET kl   == Len(en.key)
      size == kl + TYPE_SIZE + vl + 12
      r0   == make(size)
      r1   == PutUint32(r0, 0, size)
      r2   == PutUint32(r1, 4, kl)
      r3   == copy(r2, 8, en.key)
  IN  [res |-> r3, offset |-> kl + 8]

stringOperator_Encode(en) ==
  LET k  == encodeKey(en, Len(en.value))
      vl == Len(en.value)
      r1 == SetByte(k.res, k.offset, STRING_TYPE)
      r2 == PutUint32(r1, k.offset + TYPE_SIZE, vl)
      r3 == copy(r2, k.offset + TYPE_SIZE + 4, en.value)
  IN  Returned(r3)

(* int64Operator.Encode storing the value behind a 4-byte gap, where a     *)
(* length-prefixed value would start                                       *)
int64Operator_Encode_Gap(en) ==
  LET k  == encodeKey(en, 8)
      p  == ParseInt(en.value)
      r1 == SetByte(k.res, k.offset, INT64_TYPE)
      r2 == PutUint64(r1, k.offset + TYPE_SIZE + 4, p.i)
  IN  IF p.err # "nil" THEN Panicked ELSE Returned(r2)

int64Operator_Encode(en) ==
  LET k  == encodeKey(en, 8)
      p  == ParseInt(en.value)
      r1 == SetByte(k.res, k.offset, INT64_TYPE)
      r2 == PutUint64(r1, k.offset + TYPE_SIZE, p.i)
  IN  IF p.err # "nil" THEN Panicked ELSE Returned(r2)

(* Entry.Encode: dispatch on the entry's own tag *)
Entry_Encode(en) ==
  IF en.valueType \notin operators THEN Panicked
  ELSE IF en.valueType = STRING_TYPE THEN stringOperator_Encode(en)
  ELSE int64Operator_Encode(en)

(* -------------------------------------------------------------- decode *)

(* A slice handed to Decode: in.b is its backing array from the slice's    *)
(* first byte to its capacity, in.len its length.  Go checks an index      *)
(* against the length, the upper bound of a slice expression against the   *)
(* capacity, and an open slice expression s[lo:] against the length.       *)
Slice(bytes, n) == [b |-> bytes, len |-> n]

cap(in) == Len(in.b)

IndexOK(in, i) == i < in.len

SliceFromOK(in, lo) == lo <= in.len

SliceOK(in, lo, hi) == lo <= hi /\ hi <= cap(in)

Decoded(status, en) == [status |-> status, entry |-> en]

(* stringOperator.Decode with the type tag's byte left out of the offsets *)
stringOperator_Decode_NoTypeSize(in, en) ==
  LET kl == Len(en.key)
  IN  IF ~(SliceFromOK(in, kl + 8) /\ in.len - (kl + 8) >= 4)
        THEN Decoded("panic", en)
      ELSE LET vl == Uint32(in.b, kl + 8)
           IN  IF ~SliceOK(in, kl + 12, kl + 12 + vl)
                 THEN Decoded("panic", en)
               ELSE Decoded("ok",
                      [en EXCEPT !.value = SubSeq(in.b, kl + 13, kl + 12 + vl)])

stringOperator_Decode(in, en) ==
  LET kl == Len(en.key)
  IN  IF ~(SliceFromOK(in, kl + TYPE_SIZE + 8) /\ in.len - (kl + TYPE_SIZE + 8) >= 4)
        THEN Decoded("panic", en)
      ELSE LET vl == Uint32(in.b, kl + TYPE_SIZE + 8)
           IN  IF ~SliceOK(in, kl + TYPE_SIZE + 12, kl + TYPE_SIZE + 12 + vl)
                 THEN Decoded("panic", en)
               ELSE Decoded("ok",
                      [en EXCEPT !.value =
                         SubSeq(in.b, kl + TYPE_SIZE + 13, kl + TYPE_SIZE + 12 + vl)])

int64Operator_Decode(in, en) ==
  LET kl == Len(en.key)
  IN  IF ~SliceOK(in, kl + TYPE_SIZE + 8, kl + TYPE_SIZE + 16)
        THEN Decoded("panic", en)
      ELSE Decoded("ok",
             [en EXCEPT !.value = Sprintf_d(Uint64(in.b, kl + TYPE_SIZE + 8))])

(* Entry.Decode into the target entry en; a panic leaves the fields stored *)
(* before it                                                               *)
Entry_Decode(in, en) ==
  IF ~(SliceFromOK(in, 4) /\ in.len - 4 >= 4) THEN Decoded("panic", en)
  ELSE LET kl == Uint32(in.b, 4)
       IN  IF ~SliceOK(in, 8, kl + 8) THEN Decoded("panic", en)
           ELSE LET e1 == [en EXCEPT !.key = SubSeq(in.b, 9, kl + 8)]
                IN  IF ~IndexOK(in, kl + 8) THEN Decoded("panic", e1)
                    ELSE LET typeValue == in.b[kl + 9]
                         IN  IF typeValue \notin operators THEN Decoded("panic", e1)
                             ELSE IF typeValue = STRING_TYPE
                               THEN stringOperator_Decode(in, e1)
                             ELSE int64Operator_Decode(in, e1)

(* --------------------------------------------------------- bufio.Reader *)

(* A bufio.Reader over a source that holds the bytes `data` and hands out, *)
(* on each Read, as many of the remaining bytes as fit (a bytes.Reader or  *)
(* a file): buf is the reader's buffer, r and w its read and write         *)
(* indexes, off the number of bytes taken from the source.  With such a    *)
(* source the reader's sticky error is nil between calls: every call that  *)
(* meets the end of the data reports and clears it.                        *)
NewReader == [buf |-> Zeros(BufSize), r |-> 0, w |-> 0, off |-> 0]

Buffered(b) == b.w - b.r

(* the cursor: the offset in data of the next byte the reader will deliver *)
Cursor(b) == b.off - Buffered(b)

(* fill: slide the buffered bytes to the front, then one Read of the source *)
fill(b, data) ==
  LET kept == Buffered(b)
      n    == Min(BufSize - kept, Len(data) - b.off)
  IN  [buf |-> [i \in 1..BufSize |->
                  IF i <= kept THEN b.buf[b.r + i]
                  ELSE IF i <= kept + n THEN data[b.off + (i - kept)]
                  ELSE b.buf[i]],
       r |-> 0, w |-> kept + n, off |-> b.off + n]

(* Each operation below is written as a chain of steps, one per statement  *)
(* of the code, every step receiving the results of the statements before  *)
(* it.                                                                     *)

Peeked(b1, n) == [rd |-> b1, err |-> Buffered(b1) < n, at |-> b1.r]

(* Peek(n), n <= BufSize: the reader after it, whether it failed, and the  *)
(* slice it returns, which aliases buf from index `at` for n bytes         *)
Peek(b, data, n) ==
  Peeked(IF Buffered(b) < n THEN fill(b, data) ELSE b, n)

RECURSIVE DiscardLoop(_, _, _)

(* one round of Discard's loop: b1 is the reader after the fill, if any *)
DiscardStep(b, b1, data, remain) ==
  IF remain <= Buffered(b1)
    THEN [rd |-> [b1 EXCEPT !.r = b1.r + remain], err |-> FALSE]
  ELSE IF Buffered(b) = 0 /\ Buffered(b1) = 0
    THEN [rd |-> b1, err |-> TRUE]
  ELSE DiscardLoop([b1 EXCEPT !.r = b1.w], data, remain - Buffered(b1))

DiscardLoop(b, data, remain) ==
  DiscardStep(b, IF Buffered(b) = 0 THEN fill(b, data) ELSE b, data, remain)

(* Discard(n), n >= 0 *)
Discard(b, data, n) ==
  IF n = 0 THEN [rd |-> b, err |-> FALSE] ELSE DiscardLoop(b, data, n)

(* Read's copy out of the buffer b1 holds *)
ReadBuffered(b1, n) ==
  [rd  |-> [b1 EXCEPT !.r = b1.r + Min(n, Buffered(b1))],
   n   |-> Min(n, Buffered(b1)),
   p   |-> SubSeq(b1.buf, b1.r + 1, b1.r + Min(n, Buffered(b1))),
   err |-> Buffered(b1) = 0]

(* Read's direct Read of the source into p, for an empty buffer and a p    *)
(* at least as large as the buffer                                         *)
ReadDirect(b, data, got) ==
  [rd |-> [b EXCEPT !.off = b.off + got], n |-> got,
   p |-> SubSeq(data, b.off + 1, b.off + got), err |-> got = 0]

(* Read(p) with len(p) = n: the reader after it, the count it returns, the *)
(* bytes it stored into p, and whether it failed.  Read delivers what is   *)
(* buffered, or the result of a single Read of the source, never more.     *)
Read(b, data, n) ==
  IF n = 0 THEN [rd |-> b, n |-> 0, p |-> <<>>, err |-> FALSE]
  ELSE IF Buffered(b) = 0 /\ n >= BufSize
    THEN ReadDirect(b, data, Min(n, Len(data) - b.off))
  ELSE ReadBuffered(IF Buffered(b) = 0
                      THEN fill([b EXCEPT !.r = 0, !.w = 0], data) ELSE b, n)

(* ------------------------------------------------------- streaming read *)

ReadResult(b, status, value) == [rd |-> b, status |-> status, value |-> value]

(* the end of stringOperator.Read accepting whatever count Read returned *)
stringOperator_Read_data_NoCountCheck(valSize, rr) ==
  IF rr.err THEN ReadResult(rr.rd, "err", <<>>)
  ELSE ReadResult(rr.rd, "ok", rr.p)

(* stringOperator.Read from in.Read(data) on *)
stringOperator_Read_data(valSize, rr) ==
  IF rr.err THEN ReadResult(rr.rd, "err", <<>>)
  ELSE IF rr.n # valSize THEN ReadResult(rr.rd, "err", <<>>)
  ELSE ReadResult(rr.rd, "ok", rr.p)

(* stringOperator.Read from in.Discard(4) on; data = make([]byte, valSize) *)
(* is taken to succeed                                                     *)
stringOperator_Read_discard(data, valSize, d) ==
  IF d.err THEN ReadResult(d.rd, "err", <<>>)
  ELSE stringOperator_Read_data(valSize, Read(d.rd, data, valSize))

(* stringOperator.Read from in.Peek(4) on *)
stringOperator_Read_header(data, h) ==
  IF h.err THEN ReadResult(h.rd, "err", <<>>)
  ELSE stringOperator_Read_discard(data, Uint32(h.rd.buf, h.at),
                                   Discard(h.rd, data, 4))

stringOperator_Read(b, data) ==
  stringOperator_Read_header(data, Peek(b, data, 4))

int64Operator_Read_data(h) ==
  IF h.err THEN ReadResult(h.rd, "err", <<>>)
  ELSE ReadResult(h.rd, "ok", Sprintf_d(Uint64(h.rd.buf, h.at)))

int64Operator_Read(b, data) == int64Operator_Read_data(Peek(b, data, 8))

output(t, v) == [valueType |-> t, value |-> v]

CallResult(b, status, out, start, tag, opStart) ==
  [rd |-> b, status |-> status, out |-> out, start |-> start, end |-> Cursor(b),
   tag |-> tag, opStart |-> opStart, opEnd |-> Cursor(b)]

Failed(b, status, start, tag, opStart) ==
  CallResult(b, status, output("", <<>>), start, tag, opStart)

(* readValue from operator.Read on.  valueType, the slice Peek(1)          *)
(* returned, aliases the reader's buffer at index `at`; ToType reads it    *)
(* after operator.Read, when a fill or Read inside operator.Read may have  *)
(* stored other bytes there.                                               *)
readValue_data(start, at, tag, opStart, op) ==
  IF op.status # "ok" THEN Failed(op.rd, "err", start, tag, opStart)
  ELSE CallResult(op.rd, "ok", output(ToType(op.rd.buf[at + 1]), op.value),
                  start, tag, opStart)

(* readValue from in.Discard(1) on: the dispatch on valueType[0] *)
readValue_operator(data, start, at, d) ==
  IF d.err THEN Failed(d.rd, "err", start, 0, 0)
  ELSE IF d.rd.buf[at + 1] \notin operators
    THEN Failed(d.rd, "panic", start, d.rd.buf[at + 1], Cursor(d.rd))
  ELSE readValue_data(start, at, d.rd.buf[at + 1], Cursor(d.rd),
                      IF d.rd.buf[at + 1] = STRING_TYPE
                        THEN stringOperator_Read(d.rd, data)
                        ELSE int64Operator_Read(d.rd, data))

(* readValue from in.Peek(1) on *)
readValue_valueType(data, start, t) ==
  IF t.err THEN Failed(t.rd, "err", start, 0, 0)
  ELSE readValue_operator(data, start, t.at, Discard(t.rd, data, 1))

(* readValue from in.Discard(keySize + 8) on *)
readValue_key(data, start, d) ==
  IF d.err THEN Failed(d.rd, "err", start, 0, 0)
  ELSE readValue_valueType(data, start, Peek(d.rd, data, 1))

(* readValue from in.Peek(8) on *)
readValue_header(data, start, h) ==
  IF h.err THEN Failed(h.rd, "err", start, 0, 0)
  ELSE readValue_key(data, start,
                     Discard(h.rd, data, Uint32(h.rd.buf, h.at + 4) + 8))

readValue(b, data) == readValue_header(data, Cursor(b), Peek(b, data, 8))

(* ------------------------------------------------ inputs of the bulk path *)

(* "ctr" and "42", the record of the documented example *)
CtrKey == <<99, 116, 114>>
Text42 == <<52, 50>>

(* 2^63 - 1, -2^63, and the first texts out of range on either side *)
MaxInt64Text == Digits(<<9, 2, 2, 3, 3, 7, 2, 0, 3, 6, 8, 5, 4, 7, 7, 5, 8, 0, 7>>)
MinInt64Text == <<45>> \o Digits(<<9, 2, 2, 3, 3, 7, 2, 0, 3, 6, 8, 5, 4, 7, 7, 5, 8, 0, 8>>)
AboveMaxText == Digits(<<9, 2, 2, 3, 3, 7, 2, 0, 3, 6, 8, 5, 4, 7, 7, 5, 8, 0, 8>>)
BelowMinText == <<45>> \o Digits(<<9, 2, 2, 3, 3, 7, 2, 0, 3, 6, 8, 5, 4, 7, 7, 5, 8, 0, 9>>)
(* 2^64, which overflows ParseUint itself *)
Pow64Text == Digits(<<1, 8, 4, 4, 6, 7, 4, 4, 0, 7, 3, 7, 0, 9, 5, 5, 1, 6, 1, 6>>)

(* key bytes 'k' and NUL; text bytes '+', '-', '0', '7', 'a' *)
KeyBytes == {107, 0}
TextBytes == {43, 45, 48, 55, 97}

Keys == SeqsUpTo(KeyBytes, MaxKeyLen) \cup {CtrKey}

Texts ==
  SeqsUpTo(TextBytes, MaxValLen)
    \cup {Text42, MaxInt64Text, MinInt64Text, AboveMaxText, BelowMinText, Pow64Text}

(* a tag with no operator, besides the two registered ones *)
UnknownTags == {2, 255}

Records ==
  {Entry(k, t, v) : k \in Keys, t \in operators \cup {2}, v \in Texts}

NoEncode == [status |-> "none", b |-> <<>>, w |-> {}]
NoInput == [b |-> <<>>, len |-> 0, how |-> "none"]
NoDecode == Decoded("none", ZeroEntry)
NoCall == [status |-> "none", start |-> 0, end |-> 0, tag |-> 0,
             opStart |-> 0, opEnd |-> 0, out |-> output("", <<>>)]

Given(sl, how) == [b |-> sl.b, len |-> sl.len, how |-> how]

(* ------------------------------------------------------------ bulk path *)

Init ==
  /\ pc = "start"
  /\ e \in Records
  /\ enc = NoEncode
  /\ input = NoInput
  /\ dec = NoDecode
  /\ recs = <<>>
  /\ stream = <<>>
  /\ rd = NewReader
  /\ calls = 0
  /\ last = NoCall

(* e.Encode() *)
Encode ==
  /\ pc = "start"
  /\ enc' = Entry_Encode(e)
  /\ pc' = "encoded"
  /\ UNCHANGED <<e, input, dec, recs, stream, rd, calls, last>>

DecodeInput(sl, how) ==
  /\ input' = Given(sl, how)
  /\ dec' = Entry_Decode(sl, ZeroEntry)
  /\ pc' = "decoded"
  /\ UNCHANGED <<e, enc, recs, stream, rd, calls, last>>

(* Decode of the buffer Encode returned *)
Decode ==
  /\ pc = "encoded"
  /\ enc.status = "ok"
  /\ DecodeInput(Slice(enc.b, Len(enc.b)), "whole")

(* Decode of the first n bytes of the buffer: either buf[:n], which keeps  *)
(* the capacity and the bytes behind n, or a copy of exactly n bytes       *)
DecodeTruncated ==
  /\ pc = "encoded"
  /\ enc.status = "ok"
  /\ \E n \in 0..(Len(enc.b) - 1), shared \in BOOLEAN :
       DecodeInput(IF shared THEN Slice(enc.b, n)
                             ELSE Slice(SubSeq(enc.b, 1, n), n), "truncated")

(* Decode of a complete buffer whose type tag byte names no operator *)
DecodeRetagged ==
  /\ pc = "encoded"
  /\ enc.status = "ok"
  /\ \E t \in UnknownTags :
       DecodeInput(Slice([enc.b EXCEPT ![Len(e.key) + 9] = t], Len(enc.b)),
                   "retagged")

Next == Encode \/ Decode \/ DecodeTruncated \/ DecodeRetagged

Spec == Init /\ [][Next]_vars

(* ------------------------------------------------------- streaming path *)

(* the records of a stream: STRING records with a key of every length up   *)
(* to the bound and an empty, a one-byte or a longest value, and two INT64 *)
(* records                                                                 *)
StreamRecords ==
  {Entry(Repeat(107, kl), STRING_TYPE, Repeat(118, vl)) :
     kl \in 0..MaxKeyLen, vl \in {0, 1, MaxValLen}}
    \cup {Entry(<<>>, INT64_TYPE, Text42),
          Entry(Repeat(107, MaxKeyLen), INT64_TYPE, <<45, 55>>)}

RECURSIVE Concat(_)
(* the buffers of the records, one after another *)
Concat(rs) ==
  IF rs = <<>> THEN <<>> ELSE Entry_Encode(Head(rs)).b \o Concat(Tail(rs))

InitStream ==
  /\ pc = "scan"
  /\ recs \in UNION {[1..n -> StreamRecords] : n \in 1..MaxRecords}
  /\ stream = Concat(recs)
  /\ rd = NewReader
  /\ calls = 0
  /\ last = NoCall
  /\ e = ZeroEntry
  /\ enc = NoEncode
  /\ input = NoInput
  /\ dec = NoDecode

(* one call of readValue on the reader; a scan calls it once per record    *)
(* and cannot go on after a panic                                          *)
ReadValue ==
  /\ pc = "scan"
  /\ calls < Len(recs)
  /\ last.status # "panic"
  /\ \E c \in {readValue(rd, stream)} :
       /\ rd' = c.rd
       /\ last' = [status |-> c.status, start |-> c.start, end |-> c.end,
                   tag |-> c.tag, opStart |-> c.opStart, opEnd |-> c.opEnd,
                   out |-> c.out]
  /\ calls' = calls + 1
  /\ UNCHANGED <<pc, e, enc, input, dec, recs, stream>>

NextStream == ReadValue

SpecStream == InitStream /\ [][NextStream]_vars

(* ------------------------------------------------- claims: the bulk path *)

(* the value parses as a signed 64-bit decimal integer *)
Parses(t) == ParseInt(t).err = "nil"

(* the decimal text of an integer, as "%d" prints it: an optional '-', no  *)
(* '+', no leading zero, no "-0"                                           *)
IsDecimalText(t) ==
  /\ Len(t) > 0
  /\ LET body == IF t[1] = 45 THEN Tail(t) ELSE t
     IN  /\ Len(body) > 0
         /\ \A i \in 1..Len(body) : IsDigit(body[i])
         /\ body[1] = 48 => (Len(body) = 1 /\ t[1] # 45)
  /\ Parses(t)

RECURSIVE DecValue(_, _, _)
DecValue(ds, i, acc) ==
  IF i > Len(ds) THEN acc ELSE DecValue(ds, i + 1, acc * 10 + (ds[i] - 48))

(* the integer a short decimal text denotes *)
IsShortText(t) == IsDecimalText(t) /\ Len(t) <= 7
ShortValue(t) ==
  IF t[1] = 45 THEN 0 - DecValue(Tail(t), 1, 0) ELSE DecValue(t, 1, 0)

(* the 8 bytes of the two's-complement little-endian form of v, |v| < 2^24 *)
TwosComplement(v) ==
  [i \in 1..8 |->
     IF v >= 0 THEN (IF i <= 3 THEN Byte(v, i - 1) ELSE 0)
     ELSE (IF i <= 3 THEN Byte(16777216 + v, i - 1) ELSE 255)]

WholeDecoded == pc = "decoded" /\ input.how = "whole"

RoundTrips ==
  /\ dec.status = "ok"
  /\ dec.entry.key = e.key
  /\ dec.entry.value = e.value

(* C1 as stated: every STRING record, and every INT64 record whose value   *)
(* parses as a signed 64-bit decimal integer, decodes from its own         *)
(* encoding to the same key and the same text.                             *)
C1_RoundTripOfParsableText ==
  (WholeDecoded /\ (e.valueType = STRING_TYPE
                      \/ (e.valueType = INT64_TYPE /\ Parses(e.value))))
    => RoundTrips

(* C1 amended: every STRING record, and every INT64 record whose value is  *)
(* the decimal text of a signed 64-bit integer, decodes from its own       *)
(* encoding to the same key and the same text.                             *)
C1_RoundTripOfDecimalText ==
  (WholeDecoded /\ (e.valueType = STRING_TYPE
                      \/ (e.valueType = INT64_TYPE /\ IsDecimalText(e.value))))
    => RoundTrips

C1_Witness ==
  /\ WholeDecoded
  /\ e.valueType = INT64_TYPE
  /\ e.value = MinInt64Text
  /\ e.key = <<>>
  /\ RoundTrips

(* C4: the buffer Encode returns is keyLength + 1 + V + 12 bytes long      *)
(* (V = len(value) for STRING, 8 for INT64), its totalSize field holds     *)
(* that length, and Encode stores into all of it for STRING and into all   *)
(* but 4 bytes of it for INT64.                                            *)
C4_EncodedSize ==
  enc.status = "ok" =>
    LET V == IF e.valueType = STRING_TYPE THEN Len(e.value) ELSE 8
    IN  /\ Len(enc.b) = Len(e.key) + 1 + V + 12
        /\ Uint32(enc.b, 0) = Len(enc.b)
        /\ enc.w \subseteq 0..(Len(enc.b) - 1)
        /\ e.valueType = STRING_TYPE => Cardinality(enc.w) = Len(enc.b)
        /\ e.valueType = INT64_TYPE => Cardinality(enc.w) = Len(enc.b) - 4

C4_Witness ==
  /\ pc = "encoded"
  /\ enc.status = "ok"
  /\ e.valueType = INT64_TYPE
  /\ Len(e.key) = MaxKeyLen
  /\ Cardinality(enc.w) = Len(enc.b) - 4

(* C5: Decode of a complete buffer whose type tag has no operator ends in  *)
(* an error result, not in a panic and not in a normal return.             *)
C5_UnknownTagIsAnError ==
  (pc = "decoded" /\ input.how = "retagged") => dec.status = "error"

(* C6: Decode of a proper prefix of an encoded buffer, handed over as a    *)
(* buffer of its own that holds those n bytes and no more, never returns   *)
(* normally with a key and a value.                                        *)
C6_TruncationNeverDecodes ==
  (pc = "decoded" /\ input.how = "truncated" /\ cap(input) = input.len)
    => dec.status # "ok"

(* C7: Encode of an INT64 record whose value does not parse as a signed    *)
(* 64-bit decimal integer returns an error result and no buffer; it does   *)
(* not panic.                                                              *)
C7_BadIntegerIsAnError ==
  (pc = "encoded" /\ e.valueType = INT64_TYPE /\ ~Parses(e.value))
    => enc.status = "error"

(* C8: an INT64 record holding the decimal text of v decodes from its own  *)
(* encoding to a text that parses to v, and the 8 value bytes of the       *)
(* encoding are v in two's complement, least significant byte first.       *)
C8_NumericFidelity ==
  (WholeDecoded /\ e.valueType = INT64_TYPE /\ IsDecimalText(e.value)) =>
    LET bytes == SubSeq(enc.b, Len(e.key) + 10, Len(e.key) + 17)
    IN  /\ dec.status = "ok"
        /\ Parses(dec.entry.value)
        /\ ParseInt(dec.entry.value).i = bytes
        /\ IsShortText(e.value) => bytes = TwosComplement(ShortValue(e.value))
        /\ IsShortText(dec.entry.value)
             => ShortValue(dec.entry.value) = ShortValue(e.value)
        /\ e.value = MaxInt64Text <=> bytes = Repeat(255, 7) \o <<127>>
        /\ e.value = MinInt64Text <=> bytes = Zeros(7) \o <<128>>

C8_Witness ==
  /\ WholeDecoded
  /\ e.valueType = INT64_TYPE
  /\ e.value = <<45, 55>>
  /\ dec.status = "ok"
  /\ SubSeq(enc.b, Len(e.key) + 10, Len(e.key) + 17) = <<249>> \o Repeat(255, 7)

CtrRecord == Entry(CtrKey, INT64_TYPE, Text42)

(* the offsets of the buffer Encode never stored into *)
Unwritten == (0..(Len(enc.b) - 1)) \ enc.w

(* C9 as stated: the encoding of {"ctr", INT64, "42"} is 24 bytes, its     *)
(* totalSize field is 24, and the 4 bytes Encode leaves unwritten are at   *)
(* offsets 17 to 20.                                                       *)
C9_PaddingAt17To20 ==
  (pc = "encoded" /\ e = CtrRecord) =>
    /\ enc.status = "ok"
    /\ Len(enc.b) = 24
    /\ Uint32(enc.b, 0) = 24
    /\ Unwritten = 17..20

(* C9 amended: the encoding of {"ctr", INT64, "42"} is 24 bytes, its       *)
(* totalSize field is 24, and the 4 bytes Encode leaves unwritten are the  *)
(* last four, at offsets 20 to 23.                                         *)
C9_PaddingAt20To23 ==
  (pc = "encoded" /\ e = CtrRecord) =>
    /\ enc.status = "ok"
    /\ Len(enc.b) = 24
    /\ Uint32(enc.b, 0) = 24
    /\ Unwritten = 20..23

C9_Witness ==
  /\ pc = "encoded"
  /\ e = CtrRecord
  /\ enc.status = "ok"
  /\ SubSeq(enc.b, 13, 24) = <<42>> \o Zeros(11)

(* ------------------------------------------- claims: the streaming path *)

(* the length of a record on the wire: header, key, tag, and a length      *)
(* field with the value (STRING) or 8 value bytes and 4 spare (INT64)      *)
WireSize(r) ==
  IF r.valueType = STRING_TYPE THEN 8 + Len(r.key) + 1 + 4 + Len(r.value)
  ELSE 8 + Len(r.key) + 1 + 8 + 4

RECURSIVE Offset(_, _)
(* the offset in the stream of the first byte of record k *)
Offset(rs, k) == IF k <= 1 THEN 0 ELSE Offset(rs, k - 1) + WireSize(rs[k - 1])

(* the last call began with the cursor on the first byte of record k *)
CalledAt(k) == last.status # "none" /\ last.start = Offset(recs, k)

(* C2: a call of readValue that starts on the first byte of a STRING       *)
(* record and succeeds has moved the cursor by that record's totalSize,    *)
(* onto the first byte of the next record.                                 *)
C2_StringAlignment ==
  \A k \in 1..Len(recs) :
    (CalledAt(k) /\ recs[k].valueType = STRING_TYPE /\ last.status = "ok") =>
      /\ last.end - last.start = 8 + Len(recs[k].key) + 1 + 4 + Len(recs[k].value)
      /\ Cursor(rd) = Offset(recs, k + 1)

C2_Witness ==
  /\ calls = 3
  /\ CalledAt(3)
  /\ recs[3].valueType = STRING_TYPE
  /\ Len(recs[3].value) > 0
  /\ last.status = "ok"
  /\ Cursor(rd) = Len(stream)

(* C3: int64Operator.Read, entered just behind the type tag of an INT64    *)
(* record, returns successfully with the cursor 8 bytes further on.        *)
C3_Int64ReadAdvances8 ==
  \A k \in 1..Len(recs) :
    (CalledAt(k) /\ recs[k].valueType = INT64_TYPE /\ last.status = "ok") =>
      /\ last.opStart = Offset(recs, k) + 8 + Len(recs[k].key) + 1
      /\ last.opEnd = last.opStart + 8

(* what Entry.Decode yields for the buffer of a record *)
DecodeOf(r) ==
  LET buf == Entry_Encode(r).b
  IN  Entry_Decode(Slice(buf, Len(buf)), ZeroEntry).entry

(* C10: over the concatenated buffers of r1..rn, read from offset 0, the   *)
(* i-th call of readValue succeeds and returns the type name of ri and the *)
(* value Entry.Decode yields for ri; stated here for the streams short     *)
(* enough for the reader to buffer whole.                                  *)
C10_SequentialScan ==
  (calls >= 1 /\ Len(stream) <= BufSize) =>
    /\ last.status = "ok"
    /\ last.out = output(ToType(recs[calls].valueType), DecodeOf(recs[calls]).value)

====
